---- MODULE Spec2Model ----
(***************************************************************************)
(* Model of the VPN provisioning agent (ylyas8892/v-agent).                *)
(*                                                                         *)
(*   src/config.py        Settings, allowed_ip_list                        *)
(*   src/security.py      verify_api_key, verify_ip_address                *)
(*   src/sacli_runner.py  SacliRunner (run_sacli, generate_password, the   *)
(*                        four sacli steps and provision_user)             *)
(*   src/main.py          the POST /provision endpoint                     *)
(*                                                                         *)
(* A Python str is a sequence of characters, a character being a string    *)
(* of length one ("U+00E9" stands for the one character e-acute and       *)
(* "U+0060" for the grave accent).  A Python dict is a function from its   *)
(* keys.                                                                   *)
(***************************************************************************)
EXTENDS Integers, Sequences, FiniteSets, TLC

(***************************************************************************)
(* Bounds of the model.                                                    *)
(***************************************************************************)
\* number of distinct outcomes of the secure random source that are explored
MaxSeed == 2

\* the largest length generate_password is called with explicitly
MaxLength == 8

\* the number of direct calls of generate_password that are followed
MaxGenerated == 2

(***************************************************************************)
(* Python values.                                                          *)
(***************************************************************************)
\* None where an Optional[str] is expected
None == <<"None">>

\* None where an Optional[Dict] is expected
NoResult == [none |-> TRUE]

\* truth value of an Optional[str]: None and "" are falsy
Truthy(t) == t # None /\ t # << >>

\* truth value of an Optional[Dict]: None and {} are falsy
TruthyDict(d) == d # NoResult /\ DOMAIN d # {}

\* str.isspace() / regex \s for the characters that occur
IsSpace(c) == c \in {" ", "\t", "\n", "\r", "\f"}

RECURSIVE LStrip(_)
LStrip(t) ==
    IF t = << >> THEN << >>
    ELSE IF IsSpace(Head(t)) THEN LStrip(Tail(t)) ELSE t

RECURSIVE RStrip(_)
RStrip(t) ==
    IF t = << >> THEN << >>
    ELSE IF IsSpace(t[Len(t)]) THEN RStrip(SubSeq(t, 1, Len(t) - 1)) ELSE t

\* str.strip()
Strip(t) == RStrip(LStrip(t))

\* t[i:] starts with lit  (i is a 1-based position)
MatchesAt(t, i, lit) ==
    /\ i + Len(lit) - 1 <= Len(t)
    /\ SubSeq(t, i, i + Len(lit) - 1) = lit

\* end (exclusive) of the maximal run of characters from position i on that
\* satisfy / do not satisfy IsSpace: the greedy \s* and \S+ of the patterns
RECURSIVE SpaceRunEnd(_, _)
SpaceRunEnd(t, i) ==
    IF i <= Len(t) /\ IsSpace(t[i]) THEN SpaceRunEnd(t, i + 1) ELSE i

RECURSIVE NonSpaceRunEnd(_, _)
NonSpaceRunEnd(t, i) ==
    IF i <= Len(t) /\ ~IsSpace(t[i]) THEN NonSpaceRunEnd(t, i + 1) ELSE i

\* str.split(sep) for a one-character separator
RECURSIVE Split(_, _)
Split(t, sep) ==
    IF \E i \in 1..Len(t) : t[i] = sep
    THEN LET i == CHOOSE j \in 1..Len(t) :
                      t[j] = sep /\ \A k \in 1..(j - 1) : t[k] # sep
         IN  <<SubSeq(t, 1, i - 1)>> \o Split(SubSeq(t, i + 1, Len(t)), sep)
    ELSE <<t>>

(***************************************************************************)
(* Character codes, UTF-8 and base64.                                      *)
(***************************************************************************)
\* the characters U+0020 .. U+007E in code order
Printable ==
    <<" ","!","\"","#","$","%","&","'","(",")","*","+",",","-",".","/",
      "0","1","2","3","4","5","6","7","8","9",":",";","<","=",">","?",
      "@","A","B","C","D","E","F","G","H","I","J","K","L","M","N","O",
      "P","Q","R","S","T","U","V","W","X","Y","Z","[","\\","]","^","_",
      "U+0060","a","b","c","d","e","f","g","h","i","j","k","l","m","n","o",
      "p","q","r","s","t","u","v","w","x","y","z","{","|","}","~">>

\* ord(c)
Ord(c) ==
    CASE c = "\t" -> 9
      [] c = "\n" -> 10
      [] c = "\f" -> 12
      [] c = "\r" -> 13
      [] c = "U+00E9" -> 233
      [] OTHER -> 31 + CHOOSE i \in 1..Len(Printable) : Printable[i] = c

\* the UTF-8 bytes of one character (code points below U+0800)
Utf8Char(c) ==
    LET cp == Ord(c)
    IN  IF cp < 128 THEN <<cp>>
        ELSE <<192 + (cp \div 64), 128 + (cp % 64)>>

\* str.encode(): the UTF-8 bytes of a str
RECURSIVE Utf8Encode(_)
Utf8Encode(t) ==
    IF t = << >> THEN << >> ELSE Utf8Char(Head(t)) \o Utf8Encode(Tail(t))

\* the base64 alphabet of RFC 4648
B64Alphabet ==
    <<"A","B","C","D","E","F","G","H","I","J","K","L","M","N","O","P",
      "Q","R","S","T","U","V","W","X","Y","Z","a","b","c","d","e","f",
      "g","h","i","j","k","l","m","n","o","p","q","r","s","t","u","v",
      "w","x","y","z","0","1","2","3","4","5","6","7","8","9","+","/">>

B64Digit(n) == B64Alphabet[n + 1]

\* base64.b64encode(bytes).decode(): three bytes become four digits, a
\* final group of one or two bytes is padded with "="
RECURSIVE B64Encode(_)
B64Encode(bytes) ==
    CASE Len(bytes) = 0 -> << >>
      [] Len(bytes) = 1 ->
            <<B64Digit(bytes[1] \div 4), B64Digit((bytes[1] % 4) * 16),
              "=", "=">>
      [] Len(bytes) = 2 ->
            <<B64Digit(bytes[1] \div 4),
              B64Digit((bytes[1] % 4) * 16 + (bytes[2] \div 16)),
              B64Digit((bytes[2] % 16) * 4), "=">>
      [] OTHER ->
            <<B64Digit(bytes[1] \div 4),
              B64Digit((bytes[1] % 4) * 16 + (bytes[2] \div 16)),
              B64Digit((bytes[2] % 16) * 4 + (bytes[3] \div 64)),
              B64Digit(bytes[3] % 64)>>
            \o B64Encode(SubSeq(bytes, 4, Len(bytes)))

(***************************************************************************)
(* Configuration (src/config.py).                                          *)
(***************************************************************************)
\* the values of ALLOWED_IPS that are explored: "", "10.0.0.1, 10.0.0.2"
\* and " , "
AllowedIpsValues ==
    { << >>,
      <<"1","0",".","0",".","0",".","1",","," ",
        "1","0",".","0",".","0",".","2">>,
      <<" ",","," ">> }

\* Settings(): api_key is the configured secret "s3cret", admin_ui_url keeps
\* its default "https://localhost:943"
Settings(allowed_ips) ==
    [ api_key      |-> <<"s","3","c","r","e","t">>,
      allowed_ips  |-> allowed_ips,
      admin_ui_url |-> <<"h","t","t","p","s",":","/","/","l","o","c","a",
                         "l","h","o","s","t",":","9","4","3">> ]

\* [ip.strip() for ip in parts if ip.strip()]
RECURSIVE StripNonEmpty(_)
StripNonEmpty(parts) ==
    IF parts = << >> THEN << >>
    ELSE IF Truthy(Strip(Head(parts)))
         THEN <<Strip(Head(parts))>> \o StripNonEmpty(Tail(parts))
         ELSE StripNonEmpty(Tail(parts))

\* Settings.allowed_ip_list
allowed_ip_list(s) ==
    IF ~Truthy(s.allowed_ips) THEN << >>
    ELSE StripNonEmpty(Split(s.allowed_ips, ","))

(***************************************************************************)
(* Access gate (src/security.py).  A dependency either returns or raises   *)
(* an HTTPException.                                                       *)
(***************************************************************************)
Passed == [raised |-> FALSE, status_code |-> 0, detail |-> << >>]

HTTPException(status_code, detail) ==
    [raised |-> TRUE, status_code |-> status_code, detail |-> detail]

\* verify_api_key without the comparison with the configured secret
verify_api_key_presence(api_key, s) ==
    IF ~Truthy(api_key)
    THEN HTTPException(401, <<"M","i","s","s","i","n","g"," ",
                              "A","P","I"," ","k","e","y">>)
    ELSE Passed

\* verify_api_key: api_key is the X-API-Key header, None when it is missing
verify_api_key(api_key, s) ==
    IF ~Truthy(api_key)
    THEN HTTPException(401, <<"M","i","s","s","i","n","g"," ",
                              "A","P","I"," ","k","e","y">>)
    ELSE IF api_key # s.api_key
    THEN HTTPException(401, <<"I","n","v","a","l","i","d"," ",
                              "A","P","I"," ","k","e","y">>)
    ELSE Passed

\* verify_ip_address with the membership test inverted
verify_ip_address_inverted(client_ip, s) ==
    IF allowed_ip_list(s) = << >> THEN Passed
    ELSE IF \E i \in 1..Len(allowed_ip_list(s)) :
                allowed_ip_list(s)[i] = client_ip
    THEN HTTPException(403, <<"I","P"," ","a","d","d","r","e","s","s"," ",
                              "n","o","t"," ","a","u","t","h","o","r","i",
                              "z","e","d">>)
    ELSE Passed

\* verify_ip_address: client_ip is request.client.host
verify_ip_address(client_ip, s) ==
    IF allowed_ip_list(s) = << >> THEN Passed
    ELSE IF \A i \in 1..Len(allowed_ip_list(s)) :
                allowed_ip_list(s)[i] # client_ip
    THEN HTTPException(403, <<"I","P"," ","a","d","d","r","e","s","s"," ",
                              "n","o","t"," ","a","u","t","h","o","r","i",
                              "z","e","d">>)
    ELSE Passed

(***************************************************************************)
(* Command executor and credential generator (src/sacli_runner.py).        *)
(***************************************************************************)
\* what subprocess.run can do: complete with an exit status, run into the
\* 30 second timeout, or fail with another exception
Completed(returncode, stdout, stderr) ==
    [ kind |-> "completed", returncode |-> returncode,
      stdout |-> stdout, stderr |-> stderr, error |-> << >> ]

TimeoutExpired ==
    [ kind |-> "timeout", returncode |-> 0,
      stdout |-> << >>, stderr |-> << >>, error |-> << >> ]

Raised(error) ==
    [ kind |-> "exception", returncode |-> 0,
      stdout |-> << >>, stderr |-> << >>, error |-> error ]

\* run_sacli returning the captured text as it is
run_sacli_untrimmed(proc) ==
    CASE proc.kind = "completed" ->
            IF proc.returncode = 0
            THEN [success |-> TRUE, output |-> proc.stdout]
            ELSE [success |-> FALSE, output |-> proc.stderr]
      [] proc.kind = "timeout" ->
            [success |-> FALSE,
             output |-> <<"C","o","m","m","a","n","d"," ",
                          "t","i","m","e","d"," ","o","u","t">>]
      [] OTHER ->
            [success |-> FALSE, output |-> proc.error]

\* run_sacli: proc is what subprocess.run did with the command
run_sacli(proc) ==
    CASE proc.kind = "completed" ->
            IF proc.returncode = 0
            THEN [success |-> TRUE, output |-> Strip(proc.stdout)]
            ELSE [success |-> FALSE, output |-> Strip(proc.stderr)]
      [] proc.kind = "timeout" ->
            [success |-> FALSE,
             output |-> <<"C","o","m","m","a","n","d"," ",
                          "t","i","m","e","d"," ","o","u","t">>]
      [] OTHER ->
            [success |-> FALSE, output |-> proc.error]

\* string.ascii_letters + string.digits + "!@#$%^&*"
alphabet ==
    <<"a","b","c","d","e","f","g","h","i","j","k","l","m","n","o","p","q",
      "r","s","t","u","v","w","x","y","z","A","B","C","D","E","F","G","H",
      "I","J","K","L","M","N","O","P","Q","R","S","T","U","V","W","X","Y",
      "Z","0","1","2","3","4","5","6","7","8","9","!","@","#","$","%","^",
      "&","*">>

\* default of generate_password's length parameter
DefaultLength == 16

\* the outcomes of the random source: a seed stands for one sequence of
\* draws, whose i-th draw picks the element secrets.choice returns
Seeds == 1..MaxSeed

choice(seq, seed, i) == seq[((31 * seed + (2 * seed + 1) * i) % Len(seq)) + 1]

\* generate_password drawing from an alphabet with two more symbols
generate_password_wide(length, seed) ==
    [i \in 1..length |-> choice(alphabet \o <<"-", "_">>, seed, i)]

\* generate_password with range(length - 1)
generate_password_short(length, seed) ==
    [i \in 1..(length - 1) |-> choice(alphabet, seed, i)]

\* generate_password
generate_password(length, seed) ==
    [i \in 1..length |-> choice(alphabet, seed, i)]

\* the argument list a step hands to run_sacli
Command(sub, username, new_pass, props) ==
    [sub |-> sub, user |-> username, new_pass |-> new_pass, props |-> props]

\* ensure_user_exists returning True on both branches
ensure_user_exists_unchecked(proc) == TRUE

\* ensure_user_exists
ensure_user_exists(proc) == run_sacli(proc).success

\* set_password returning True on both branches
set_password_unchecked(proc) == TRUE

\* set_password
set_password(proc) == run_sacli(proc).success

ImportProfilePrefix ==
    <<"o","p","e","n","v","p","n",":","/","/","i","m","p","o","r","t","-",
      "p","r","o","f","i","l","e","/">>

HttpsPrefix == <<"h","t","t","p","s",":","/","/">>

TokenKeyword == <<"T","o","k","e","n",":">>

\* SearchImportProfile returning group(0), the whole match
SearchImportProfile_group0(output) ==
    LET lit   == ImportProfilePrefix \o HttpsPrefix
        ok(i) == /\ MatchesAt(output, i, lit)
                 /\ NonSpaceRunEnd(output, i + Len(lit)) > i + Len(lit)
    IN  IF \E i \in 1..Len(output) : ok(i)
        THEN LET i == CHOOSE j \in 1..Len(output) :
                          ok(j) /\ \A k \in 1..(j - 1) : ~ok(k)
             IN  SubSeq(output, i, NonSpaceRunEnd(output, i + Len(lit)) - 1)
        ELSE None

\* re.search(r"openvpn://import-profile/(https://\S+)", output).group(1),
\* None when there is no match
SearchImportProfile(output) ==
    LET lit   == ImportProfilePrefix \o HttpsPrefix
        ok(i) == /\ MatchesAt(output, i, lit)
                 /\ NonSpaceRunEnd(output, i + Len(lit)) > i + Len(lit)
    IN  IF \E i \in 1..Len(output) : ok(i)
        THEN LET i == CHOOSE j \in 1..Len(output) :
                          ok(j) /\ \A k \in 1..(j - 1) : ~ok(k)
             IN  SubSeq(output, i + Len(ImportProfilePrefix),
                        NonSpaceRunEnd(output, i + Len(lit)) - 1)
        ELSE None

\* re.search(r"Token:\s*(\S+)", output).group(1), None when there is no match
SearchToken(output) ==
    LET start(i) == SpaceRunEnd(output, i + Len(TokenKeyword))
        ok(i)    == /\ MatchesAt(output, i, TokenKeyword)
                    /\ NonSpaceRunEnd(output, start(i)) > start(i)
    IN  IF \E i \in 1..Len(output) : ok(i)
        THEN LET i == CHOOSE j \in 1..Len(output) :
                          ok(j) /\ \A k \in 1..(j - 1) : ~ok(k)
             IN  SubSeq(output, start(i),
                        NonSpaceRunEnd(output, start(i)) - 1)
        ELSE None

SrcConnect == <<"/","?","s","r","c","=","c","o","n","n","e","c","t">>

\* generate_profile_token without the check of success
generate_profile_token_unchecked(username, proc, s) ==
    LET r == run_sacli(proc)
    IN  IF SearchImportProfile(r.output) # None
        THEN SearchImportProfile(r.output)
        ELSE IF SearchToken(r.output) # None
        THEN s.admin_ui_url \o SrcConnect
               \o <<"&","u","s","e","r","n","a","m","e","=">> \o username
               \o <<"&","t","o","k","e","n","=">> \o SearchToken(r.output)
        ELSE None

\* generate_profile_token returning the output when no pattern matched
generate_profile_token_raw(username, proc, s) ==
    LET r == run_sacli(proc)
    IN  IF ~r.success THEN None
        ELSE IF SearchImportProfile(r.output) # None
        THEN SearchImportProfile(r.output)
        ELSE IF SearchToken(r.output) # None
        THEN s.admin_ui_url \o SrcConnect
               \o <<"&","u","s","e","r","n","a","m","e","=">> \o username
               \o <<"&","t","o","k","e","n","=">> \o SearchToken(r.output)
        ELSE r.output

\* generate_profile_token trying the Token: pattern first
generate_profile_token_token_first(username, proc, s) ==
    LET r == run_sacli(proc)
    IN  IF ~r.success THEN None
        ELSE IF SearchToken(r.output) # None
        THEN s.admin_ui_url \o SrcConnect
               \o <<"&","u","s","e","r","n","a","m","e","=">> \o username
               \o <<"&","t","o","k","e","n","=">> \o SearchToken(r.output)
        ELSE IF SearchImportProfile(r.output) # None
        THEN SearchImportProfile(r.output)
        ELSE None

\* generate_profile_token
generate_profile_token(username, proc, s) ==
    LET r == run_sacli(proc)
    IN  IF ~r.success THEN None
        ELSE IF SearchImportProfile(r.output) # None
        THEN SearchImportProfile(r.output)
        ELSE IF SearchToken(r.output) # None
        THEN s.admin_ui_url \o SrcConnect
               \o <<"&","u","s","e","r","n","a","m","e","=">> \o username
               \o <<"&","t","o","k","e","n","=">> \o SearchToken(r.output)
        ELSE None

\* get_user_profile
get_user_profile(proc) ==
    LET r == run_sacli(proc)
    IN  IF r.success THEN B64Encode(Utf8Encode(r.output)) ELSE None

\* provision_user giving up when there is no token URL
provision_result_strict(username, password, token_url, ovpn_file, s) ==
    IF ~Truthy(token_url) THEN NoResult
    ELSE LET result == [ username  |-> username,
                         password  |-> password,
                         token_url |-> token_url ]
         IN  IF Truthy(ovpn_file)
             THEN result @@ ("ovpn_file_base64" :> ovpn_file)
             ELSE result

\* the result dict of provision_user (lines 181-188)
provision_result(username, password, token_url, ovpn_file, s) ==
    LET result == [ username  |-> username,
                    password  |-> password,
                    token_url |-> IF Truthy(token_url) THEN token_url
                                  ELSE s.admin_ui_url \o SrcConnect ]
    IN  IF Truthy(ovpn_file)
        THEN result @@ ("ovpn_file_base64" :> ovpn_file)
        ELSE result

(***************************************************************************)
(* The POST /provision endpoint (src/main.py).                             *)
(***************************************************************************)
\* ProvisionResponse(**result): ovpn_file_base64 defaults to None
ProvisionResponse(result) ==
    [ username  |-> result.username,
      password  |-> result.password,
      token_url |-> result.token_url,
      ovpn_file_base64 |-> IF "ovpn_file_base64" \in DOMAIN result
                           THEN result.ovpn_file_base64 ELSE None ]

\* str(e) of an HTTPException: "<status_code>: <detail>"
HTTPExceptionStr(e) ==
    (CASE e.status_code = 500 -> <<"5","0","0">>
       [] e.status_code = 401 -> <<"4","0","1">>
       [] OTHER -> <<"4","0","3">>) \o <<":"," ">> \o e.detail

\* the endpoint body returning the failure message instead of raising it
endpoint_response_returned(result) ==
    IF ~TruthyDict(result)
    THEN [ status_code |-> 200,
           body |-> [detail |->
                       <<"F","a","i","l","e","d"," ","t","o"," ","p","r","o",
                         "v","i","s","i","o","n"," ","u","s","e","r"," ","i",
                         "n"," ","O","p","e","n","V","P","N"," ","A","c","c",
                         "e","s","s"," ","S","e","r","v","e","r">>] ]
    ELSE [ status_code |-> 200, body |-> ProvisionResponse(result) ]

\* the answer of the endpoint body (lines 70-82) to the workflow's result:
\* the HTTPException of line 72 is caught by line 80 and raised again with
\* its text as the detail
endpoint_response(result) ==
    IF ~TruthyDict(result)
    THEN [ status_code |-> 500,
           body |-> [detail |-> HTTPExceptionStr(HTTPException(500,
                       <<"F","a","i","l","e","d"," ","t","o"," ","p","r","o",
                         "v","i","s","i","o","n"," ","u","s","e","r"," ","i",
                         "n"," ","O","p","e","n","V","P","N"," ","A","c","c",
                         "e","s","s"," ","S","e","r","v","e","r">>))] ]
    ELSE [ status_code |-> 200, body |-> ProvisionResponse(result) ]

\* the answer to a request a dependency rejected
rejection(e) == [status_code |-> e.status_code, body |-> [detail |-> e.detail]]

(***************************************************************************)
(* Inputs.                                                                 *)
(***************************************************************************)
\* request slots
Reqs == {"r1", "r2"}

\* desired_username: "alice", "bob"
Usernames == { <<"a","l","i","c","e">>, <<"b","o","b">> }

\* X-API-Key: missing, "s3cre" (a prefix of the secret), "s3cret"
ApiKeyHeaders ==
    { None, <<"s","3","c","r","e">>, <<"s","3","c","r","e","t">> }

\* request.client.host: "10.0.0.2", "10.0.0.9"
ClientHosts ==
    { <<"1","0",".","0",".","0",".","2">>,
      <<"1","0",".","0",".","0",".","9">> }

\* the password argument of a direct call: None, "" and "Pw#1"
PasswordArgs == { None, << >>, <<"P","w","#","1">> }

\* outcomes of the UserPropPut and SetLocalPassword commands
StepOutcomes ==
    { Completed(0, <<"o","k","\n">>, << >>),
      Completed(1, << >>, <<"e","r","r","\n">>),
      TimeoutExpired,
      Raised(<<"E","N","O","E","N","T">>) }

\* outcomes of the AddProfileToken command: the two recognised shapes
\* ("openvpn://import-profile/https://h/p\n" and "Token: t1\n"), output of
\* neither shape ("Token: \n", the keyword without a token) and a failure
\* whose stdout and stderr are "Token: t1"
TokenOutcomes ==
    { Completed(0, ImportProfilePrefix \o HttpsPrefix
                     \o <<"h","/","p","\n">>, << >>),
      Completed(0, TokenKeyword \o <<" ","t","1","\n">>, << >>),
      Completed(0, TokenKeyword \o <<" ","\n">>, << >>),
      Completed(1, TokenKeyword \o <<" ","t","1">>,
                   TokenKeyword \o <<" ","t","1">>) }

\* outcomes of the GetUserlogin command: "client\n", e-acute, empty output
\* and a failure
ProfileOutcomes ==
    { Completed(0, <<"c","l","i","e","n","t","\n">>, << >>),
      Completed(0, <<"U+00E9">>, << >>),
      Completed(0, << >>, << >>),
      Completed(1, <<"c","l","i","e","n","t">>, <<"e","r","r">>) }

\* the outcomes of a command of one of several workflows at a time
ConcurrentOutcomes ==
    { Completed(0, <<"o","k","\n">>, << >>),
      Completed(1, << >>, <<"e","r","r","\n">>) }

\* further outcomes of a command, for run_sacli: text on both streams, with
\* whitespace before, inside and after it, and nothing but whitespace
ExecutorOutcomes ==
    StepOutcomes \cup
    { Completed(0, <<" "," ","o","k"," ","\n">>, <<"w","a","r","n","\n">>),
      Completed(0, <<" ","\n">>, << >>),
      Completed(0, <<"a"," ","b">>, << >>),
      Completed(2, <<"o","u","t","\n">>,
                   <<"\t","e","r","r"," ","m","s","g","\r","\n">>),
      Completed(1, <<"o","u","t">>, << >>) }

\* further outputs of a successful AddProfileToken command:
\*   "see openvpn://import-profile/https://h/p now\n"
\*   "Token:\n\tt3 rest"
\*   "Token: t1 openvpn://import-profile/https://h/p"
\*   "openvpn://import-profile/https://h/p\nToken: t1"
\*   "openvpn://import-profile/https:// Token:t2"
\*   "token: t5"
\*   "Token: a Token: b"
\*   "openvpn://import-profile/https://a openvpn://import-profile/https://b"
\*   "openvpn://import-profile/http://h Token: t4"
\*   ""
ParserTexts ==
    { <<"s","e","e"," ">> \o ImportProfilePrefix \o HttpsPrefix
          \o <<"h","/","p"," ","n","o","w","\n">>,
      TokenKeyword \o <<"\n","\t","t","3"," ","r","e","s","t">>,
      TokenKeyword \o <<" ","t","1"," ">> \o ImportProfilePrefix
          \o HttpsPrefix \o <<"h","/","p">>,
      ImportProfilePrefix \o HttpsPrefix \o <<"h","/","p","\n">>
          \o TokenKeyword \o <<" ","t","1">>,
      ImportProfilePrefix \o HttpsPrefix \o <<" ">> \o TokenKeyword
          \o <<"t","2">>,
      <<"t","o","k","e","n",":"," ","t","5">>,
      TokenKeyword \o <<" ","a"," ">> \o TokenKeyword \o <<" ","b">>,
      ImportProfilePrefix \o HttpsPrefix \o <<"a"," ">>
          \o ImportProfilePrefix \o HttpsPrefix \o <<"b">>,
      ImportProfilePrefix \o <<"h","t","t","p",":","/","/","h"," ">>
          \o TokenKeyword \o <<" ","t","4">>,
      << >> }

\* outcomes of the AddProfileToken command for the output parser
ParserOutcomes ==
    TokenOutcomes \cup { Completed(0, t, << >>) : t \in ParserTexts }

(***************************************************************************)
(* State.                                                                  *)
(***************************************************************************)
VARIABLES
    settings,   \* the Settings() instance
    pc,         \* where each request is
    req,        \* the request: how it came in, its header, origin and input
    password,   \* provision_user's password
    token_url,  \* provision_user's token_url
    ovpn_file,  \* provision_user's ovpn_file
    result,     \* what provision_user returned
    response,   \* the HTTP response
    calls,      \* the commands run for the request, with what they did
    generated,  \* the calls of generate_password made for the request
    log         \* the commands of all requests in the order they were run

vars == <<settings, pc, req, password, token_url, ovpn_file, result,
          response, calls, generated, log>>

NoRequest ==
    [ via |-> "none", api_key |-> None, client_host |-> << >>,
      username |-> << >>, password |-> None ]

NoResponse == [status_code |-> 0, body |-> NoResult]

\* the positions inside the endpoint body, which never awaits
EndpointBody ==
    { "provision_user", "ensure_user_exists", "set_password",
      "generate_profile_token", "get_user_profile", "returned" }

\* the event loop is not inside the endpoint body of another request
LoopFree(r) ==
    \A q \in Reqs \ {r} : ~(req[q].via = "http" /\ pc[q] \in EndpointBody)

Init ==
    /\ settings \in { Settings(a) : a \in AllowedIpsValues }
    /\ pc = [r \in Reqs |-> "idle"]
    /\ req = [r \in Reqs |-> NoRequest]
    /\ password = [r \in Reqs |-> None]
    /\ token_url = [r \in Reqs |-> None]
    /\ ovpn_file = [r \in Reqs |-> None]
    /\ result = [r \in Reqs |-> NoResult]
    /\ response = [r \in Reqs |-> NoResponse]
    /\ calls = [r \in Reqs |-> << >>]
    /\ generated = [r \in Reqs |-> << >>]
    /\ log = << >>

(***************************************************************************)
(* The boundary: POST /provision.                                          *)
(***************************************************************************)
\* a request arrives
Receive(r, api_key, client_host, desired_username) ==
    /\ pc[r] = "idle"
    /\ req' = [req EXCEPT ![r] =
                 [ via |-> "http", api_key |-> api_key,
                   client_host |-> client_host,
                   username |-> desired_username, password |-> None ]]
    /\ pc' = [pc EXCEPT ![r] = "verify_api_key"]
    /\ UNCHANGED <<settings, password, token_url, ovpn_file, result,
                   response, calls, generated, log>>

\* Depends(verify_api_key)
VerifyApiKey(r) ==
    /\ pc[r] = "verify_api_key"
    /\ LoopFree(r)
    /\ LET e == verify_api_key(req[r].api_key, settings)
       IN  IF e.raised
           THEN /\ response' = [response EXCEPT ![r] = rejection(e)]
                /\ pc' = [pc EXCEPT ![r] = "rejected"]
           ELSE /\ pc' = [pc EXCEPT ![r] = "verify_ip_address"]
                /\ UNCHANGED response
    /\ UNCHANGED <<settings, req, password, token_url, ovpn_file, result,
                   calls, generated, log>>

\* Depends(verify_ip_address)
VerifyIpAddress(r) ==
    /\ pc[r] = "verify_ip_address"
    /\ LoopFree(r)
    /\ LET e == verify_ip_address(req[r].client_host, settings)
       IN  IF e.raised
           THEN /\ response' = [response EXCEPT ![r] = rejection(e)]
                /\ pc' = [pc EXCEPT ![r] = "rejected"]
           ELSE /\ pc' = [pc EXCEPT ![r] = "endpoint"]
                /\ UNCHANGED response
    /\ UNCHANGED <<settings, req, password, token_url, ovpn_file, result,
                   calls, generated, log>>

\* the endpoint body starts: runner.provision_user(username=...)
Endpoint(r) ==
    /\ pc[r] = "endpoint"
    /\ LoopFree(r)
    /\ pc' = [pc EXCEPT ![r] = "provision_user"]
    /\ UNCHANGED <<settings, req, password, token_url, ovpn_file, result,
                   response, calls, generated, log>>

\* the endpoint body ends: the response to the workflow's result
EndpointReturn(r) ==
    /\ pc[r] = "returned"
    /\ req[r].via = "http"
    /\ response' = [response EXCEPT ![r] = endpoint_response(result[r])]
    /\ pc' = [pc EXCEPT ![r] = "responded"]
    /\ UNCHANGED <<settings, req, password, token_url, ovpn_file, result,
                   calls, generated, log>>

(***************************************************************************)
(* The workflow: SacliRunner.provision_user.                               *)
(***************************************************************************)
\* provision_user waiting while another call for the same username runs
CallProvisionUser_locked(r, username, pw) ==
    /\ pc[r] = "idle"
    /\ \A q \in Reqs \ {r} :
           ~(req[q].username = username /\ pc[q] \in EndpointBody \ {"returned"})
    /\ req' = [req EXCEPT ![r] =
                 [ via |-> "call", api_key |-> None, client_host |-> << >>,
                   username |-> username, password |-> pw ]]
    /\ pc' = [pc EXCEPT ![r] = "provision_user"]
    /\ UNCHANGED <<settings, password, token_url, ovpn_file, result,
                   response, calls, generated, log>>

\* provision_user called directly, with or without a password
CallProvisionUser(r, username, pw) ==
    /\ pc[r] = "idle"
    /\ req' = [req EXCEPT ![r] =
                 [ via |-> "call", api_key |-> None, client_host |-> << >>,
                   username |-> username, password |-> pw ]]
    /\ pc' = [pc EXCEPT ![r] = "provision_user"]
    /\ UNCHANGED <<settings, password, token_url, ovpn_file, result,
                   response, calls, generated, log>>

\* a call of generate_password: its positional arguments, and what the
\* draws of the seed made it return
Generated(args, seed) ==
    [ args  |-> args,
      value |-> generate_password(IF args = << >> THEN DefaultLength
                                                  ELSE args[1], seed) ]

\* subprocess.run returns when the command has ended: the command, what the
\* process did and what run_sacli made of it are recorded for the request
\* and in the order of all commands
Run(r, command, proc) ==
    /\ calls' = [calls EXCEPT ![r] = Append(@,
                   [ command |-> command, proc |-> proc,
                     outcome |-> run_sacli(proc) ])]
    /\ log' = Append(log, <<r, Len(calls[r]) + 1>>)

\* the positional arguments of a call of generate_password: none, or a length
GenerateArgs == {<< >>} \cup { <<n>> : n \in 0..MaxLength }

\* generate_password called directly
GeneratePassword(r, args, seed) ==
    /\ pc[r] = "idle"
    /\ Len(generated[r]) < MaxGenerated
    /\ generated' = [generated EXCEPT ![r] = Append(@, Generated(args, seed))]
    /\ UNCHANGED <<settings, pc, req, password, token_url, ovpn_file, result,
                   response, calls, log>>

\* provision_user generating a password whatever it was given
ProvisionUser_generating(r, seed) ==
    /\ pc[r] = "provision_user"
    /\ generated' = [generated EXCEPT ![r] = Append(@, Generated(<< >>, seed))]
    /\ password' = [password EXCEPT ![r] = Generated(<< >>, seed).value]
    /\ pc' = [pc EXCEPT ![r] = "ensure_user_exists"]
    /\ UNCHANGED <<settings, req, token_url, ovpn_file, result, response,
                   calls, log>>

\* lines 160-162: generate a password if none was provided
ProvisionUser(r, seed) ==
    /\ pc[r] = "provision_user"
    /\ IF ~Truthy(req[r].password)
       THEN /\ generated' = [generated EXCEPT ![r] = Append(@,
                                 Generated(<< >>, seed))]
            /\ password' = [password EXCEPT ![r] =
                                Generated(<< >>, seed).value]
       ELSE /\ password' = [password EXCEPT ![r] = req[r].password]
            /\ UNCHANGED generated
    /\ pc' = [pc EXCEPT ![r] = "ensure_user_exists"]
    /\ UNCHANGED <<settings, req, token_url, ovpn_file, result, response,
                   calls, log>>

\* lines 164-166: step 1, ensure the user exists
EnsureUserExists(r, proc) ==
    /\ pc[r] = "ensure_user_exists"
    /\ Run(r, Command("UserPropPut", req[r].username, None,
                      <<"type", "user_connect">>), proc)
    /\ IF ensure_user_exists(proc)
       THEN /\ pc' = [pc EXCEPT ![r] = "set_password"]
            /\ UNCHANGED result
       ELSE /\ result' = [result EXCEPT ![r] = NoResult]
            /\ pc' = [pc EXCEPT ![r] = "returned"]
    /\ UNCHANGED <<settings, req, password, token_url, ovpn_file, response,
                   generated>>

\* step 2 run again after a failure
SetPassword_retry(r, proc) ==
    /\ pc[r] = "set_password"
    /\ Run(r, Command("SetLocalPassword", req[r].username, password[r],
                      << >>), proc)
    /\ IF set_password(proc)
       THEN /\ pc' = [pc EXCEPT ![r] = "generate_profile_token"]
            /\ UNCHANGED result
       ELSE IF Len(calls[r]) < 2
       THEN /\ pc' = [pc EXCEPT ![r] = "set_password"]
            /\ UNCHANGED result
       ELSE /\ result' = [result EXCEPT ![r] = NoResult]
            /\ pc' = [pc EXCEPT ![r] = "returned"]
    /\ UNCHANGED <<settings, req, password, token_url, ovpn_file, response,
                   generated>>

\* lines 168-170: step 2, set the password
SetPassword(r, proc) ==
    /\ pc[r] = "set_password"
    /\ Run(r, Command("SetLocalPassword", req[r].username, password[r],
                      << >>), proc)
    /\ IF set_password(proc)
       THEN /\ pc' = [pc EXCEPT ![r] = "generate_profile_token"]
            /\ UNCHANGED result
       ELSE /\ result' = [result EXCEPT ![r] = NoResult]
            /\ pc' = [pc EXCEPT ![r] = "returned"]
    /\ UNCHANGED <<settings, req, password, token_url, ovpn_file, response,
                   generated>>

\* lines 172-176: step 3, generate the token URL
GenerateProfileToken(r, proc) ==
    /\ pc[r] = "generate_profile_token"
    /\ Run(r, Command("AddProfileToken", req[r].username, None, << >>), proc)
    /\ token_url' = [token_url EXCEPT ![r] =
                       generate_profile_token(req[r].username, proc, settings)]
    /\ pc' = [pc EXCEPT ![r] = "get_user_profile"]
    /\ UNCHANGED <<settings, req, password, ovpn_file, result, response,
                   generated>>

\* lines 178-191: step 4, get the .ovpn file, then build and return the result
GetUserProfile(r, proc) ==
    /\ pc[r] = "get_user_profile"
    /\ Run(r, Command("GetUserlogin", req[r].username, None, << >>), proc)
    /\ ovpn_file' = [ovpn_file EXCEPT ![r] = get_user_profile(proc)]
    /\ result' = [result EXCEPT ![r] =
                    provision_result(req[r].username, password[r],
                                     token_url[r], ovpn_file'[r], settings)]
    /\ pc' = [pc EXCEPT ![r] = "returned"]
    /\ UNCHANGED <<settings, req, password, token_url, response, generated>>

\* a step of the workflow of request r
Workflow(r) ==
    \/ \E seed \in Seeds : ProvisionUser(r, seed)
    \/ \E proc \in StepOutcomes : EnsureUserExists(r, proc)
    \/ \E proc \in StepOutcomes : SetPassword(r, proc)
    \/ \E proc \in TokenOutcomes : GenerateProfileToken(r, proc)
    \/ \E proc \in ProfileOutcomes : GetUserProfile(r, proc)

(***************************************************************************)
(* Specifications.                                                         *)
(***************************************************************************)
\* the service: requests come in through POST /provision
Next ==
    \E r \in Reqs :
        \/ \E k \in ApiKeyHeaders, h \in ClientHosts, u \in Usernames :
               Receive(r, k, h, u)
        \/ VerifyApiKey(r)
        \/ VerifyIpAddress(r)
        \/ Endpoint(r)
        \/ Workflow(r)
        \/ EndpointReturn(r)

Spec == Init /\ [][Next]_vars

\* the workflow alone: provision_user called directly
NextWorkflow ==
    \/ \E u \in Usernames, pw \in PasswordArgs : CallProvisionUser("r1", u, pw)
    \/ Workflow("r1")

SpecWorkflow == Init /\ [][NextWorkflow]_vars

\* the workflow alone, with the larger set of AddProfileToken outputs
NextParser ==
    \/ \E u \in Usernames : CallProvisionUser("r1", u, None)
    \/ \E seed \in Seeds : ProvisionUser("r1", seed)
    \/ \E proc \in StepOutcomes : EnsureUserExists("r1", proc)
    \/ \E proc \in StepOutcomes : SetPassword("r1", proc)
    \/ \E proc \in ParserOutcomes : GenerateProfileToken("r1", proc)
    \/ \E proc \in ProfileOutcomes : GetUserProfile("r1", proc)

SpecParser == Init /\ [][NextParser]_vars

\* the password generator alone
NextGenerate ==
    \E args \in GenerateArgs, seed \in Seeds : GeneratePassword("r1", args, seed)

SpecGenerate == Init /\ [][NextGenerate]_vars

\* the workflow alone, with the larger set of outcomes of its first command
NextExecutor ==
    \/ \E u \in Usernames : CallProvisionUser("r1", u, None)
    \/ \E seed \in Seeds : ProvisionUser("r1", seed)
    \/ \E proc \in ExecutorOutcomes : EnsureUserExists("r1", proc)
    \/ \E proc \in StepOutcomes : SetPassword("r1", proc)
    \/ \E proc \in TokenOutcomes : GenerateProfileToken("r1", proc)
    \/ \E proc \in ProfileOutcomes : GetUserProfile("r1", proc)

SpecExecutor == Init /\ [][NextExecutor]_vars

\* provision_user called by several callers at a time, each on a thread or
\* in a process of its own: SacliRunner keeps no state and takes no lock
NextConcurrent ==
    \E r \in Reqs :
        \/ \E u \in Usernames : CallProvisionUser(r, u, None)
        \/ \E seed \in Seeds : ProvisionUser(r, seed)
        \/ \E proc \in ConcurrentOutcomes : EnsureUserExists(r, proc)
        \/ \E proc \in ConcurrentOutcomes : SetPassword(r, proc)
        \/ \E proc \in ConcurrentOutcomes : GenerateProfileToken(r, proc)
        \/ \E proc \in ConcurrentOutcomes : GetUserProfile(r, proc)

SpecConcurrent == Init /\ [][NextConcurrent]_vars

(***************************************************************************)
(* Vocabulary of the properties.                                           *)
(***************************************************************************)
\* the external command completed with exit status zero
Succeeded(proc) == proc.kind = "completed" /\ proc.returncode = 0

\* the request's i-th command was the subcommand sub
IsCall(r, i, sub) == i \in 1..Len(calls[r]) /\ calls[r][i].command.sub = sub

\* the subcommand sub was run for the request and failed / succeeded
Failed(r, sub) ==
    \E i \in 1..Len(calls[r]) : IsCall(r, i, sub) /\ ~Succeeded(calls[r][i].proc)

Ran(r, sub) == \E i \in 1..Len(calls[r]) : IsCall(r, i, sub)

RanOk(r, sub) ==
    \E i \in 1..Len(calls[r]) : IsCall(r, i, sub) /\ Succeeded(calls[r][i].proc)

\* provision_user has returned
Returned(r) == pc[r] \in {"returned", "responded"}

\* C1: when the UserPropPut (ensure-account) command fails, provision_user
\* has returned None and UserPropPut is the only command that was run:
\* SetLocalPassword, AddProfileToken and GetUserlogin are never run.
C1_EnsureFailureIsFatal ==
    \A r \in Reqs :
        Failed(r, "UserPropPut") =>
            /\ Returned(r)
            /\ result[r] = NoResult
            /\ Len(calls[r]) = 1
            /\ ~Ran(r, "SetLocalPassword")
            /\ ~Ran(r, "AddProfileToken")
            /\ ~Ran(r, "GetUserlogin")

\* the ensure-account command has timed out for one request and exited with
\* a non-zero status for another
C1_Witness ==
    /\ Returned("r1") /\ Failed("r1", "UserPropPut")
    /\ calls["r1"][1].proc.kind = "timeout"
    /\ Returned("r2") /\ Failed("r2", "UserPropPut")
    /\ calls["r2"][1].proc.kind = "completed"

\* C2: when UserPropPut succeeds and SetLocalPassword then fails,
\* provision_user has returned None, neither AddProfileToken nor
\* GetUserlogin was run, and no response carries the account's data.
C2_SetPasswordFailureIsFatal ==
    \A r \in Reqs :
        (RanOk(r, "UserPropPut") /\ Failed(r, "SetLocalPassword")) =>
            /\ Returned(r)
            /\ result[r] = NoResult
            /\ Len(calls[r]) = 2
            /\ ~Ran(r, "AddProfileToken")
            /\ ~Ran(r, "GetUserlogin")
            /\ response[r].status_code # 200

\* set-password has failed after a successful ensure-account
C2_Witness ==
    /\ pc["r1"] = "responded"
    /\ RanOk("r1", "UserPropPut")
    /\ Failed("r1", "SetLocalPassword")
    /\ calls["r1"][2].proc.kind = "exception"

\* the request came in through POST /provision and passed both dependencies
Authorized(r) ==
    /\ req[r].via = "http"
    /\ pc[r] \notin {"idle", "verify_api_key", "verify_ip_address", "rejected"}

PasswordCharacters ==
    { "A","B","C","D","E","F","G","H","I","J","K","L","M","N","O","P","Q",
      "R","S","T","U","V","W","X","Y","Z",
      "a","b","c","d","e","f","g","h","i","j","k","l","m","n","o","p","q",
      "r","s","t","u","v","w","x","y","z",
      "0","1","2","3","4","5","6","7","8","9",
      "!","@","#","$","%","^","&","*" }

\* all four commands of the request were run and succeeded
AllSucceeded(r) ==
    /\ RanOk(r, "UserPropPut")
    /\ RanOk(r, "SetLocalPassword")
    /\ RanOk(r, "AddProfileToken")
    /\ RanOk(r, "GetUserlogin")

FallbackUrl ==
    settings.admin_ui_url
        \o <<"/","?","s","r","c","=","c","o","n","n","e","c","t">>

\* C5: when UserPropPut and SetLocalPassword succeed and the AddProfileToken
\* command fails, provision_user still returns a result, and its token_url is
\* exactly <adminUrl>/?src=connect.
C5_TokenCommandFailureFallsBack ==
    \A r \in Reqs :
        (Returned(r) /\ RanOk(r, "UserPropPut") /\ RanOk(r, "SetLocalPassword")
           /\ Failed(r, "AddProfileToken")) =>
            /\ result[r] # NoResult
            /\ result[r].token_url = FallbackUrl

\* the token command failed and the workflow returned
C5_Witness ==
    /\ Returned("r1")
    /\ Failed("r1", "AddProfileToken")
    /\ result["r1"] # NoResult
    /\ RanOk("r1", "GetUserlogin")

\* the text has the shape openvpn://import-profile/https://<non-space>...
HasImportProfileShape(t) ==
    \E i \in 1..Len(t) :
        /\ MatchesAt(t, i, ImportProfilePrefix \o HttpsPrefix)
        /\ i + Len(ImportProfilePrefix \o HttpsPrefix) <= Len(t)
        /\ ~IsSpace(t[i + Len(ImportProfilePrefix \o HttpsPrefix)])

\* the text has the shape Token:<whitespace><non-space>...
HasTokenShape(t) ==
    \E i \in 1..Len(t) : \E j \in (i + Len(TokenKeyword))..Len(t) :
        /\ MatchesAt(t, i, TokenKeyword)
        /\ \A k \in (i + Len(TokenKeyword))..(j - 1) : IsSpace(t[k])
        /\ ~IsSpace(t[j])

\* the AddProfileToken command of the request succeeded with output of
\* neither shape
TokenParseFailed(r) ==
    \E i \in 1..Len(calls[r]) :
        /\ IsCall(r, i, "AddProfileToken")
        /\ Succeeded(calls[r][i].proc)
        /\ ~HasImportProfileShape(Strip(calls[r][i].proc.stdout))
        /\ ~HasTokenShape(Strip(calls[r][i].proc.stdout))

ProfileProc(r) ==
    calls[r][CHOOSE i \in 1..Len(calls[r]) : IsCall(r, i, "GetUserlogin")].proc

ValidSecret(r) == req[r].api_key # None /\ req[r].api_key = settings.api_key

\* C8: a request whose X-API-Key header is missing or differs from the
\* configured secret never gets past verify_api_key: it is rejected with
\* status 401 and no external command is ever run for it.
C8_BadSecretRunsNothing ==
    \A r \in Reqs :
        (req[r].via = "http" /\ ~ValidSecret(r)) =>
            /\ pc[r] \in {"verify_api_key", "rejected"}
            /\ calls[r] = << >>
            /\ pc[r] = "rejected" =>
                   /\ response[r].status_code = 401
                   /\ DOMAIN response[r].body = {"detail"}

\* a request without the header and one with a wrong header were rejected
C8_Witness ==
    /\ pc["r1"] = "rejected" /\ req["r1"].api_key = None
    /\ pc["r2"] = "rejected" /\ req["r2"].api_key = <<"s","3","c","r","e">>
    /\ response["r1"].status_code = 401
    /\ response["r2"].status_code = 401

\* the configured allowlist: the comma-separated entries of ALLOWED_IPS,
\* trimmed, without the empty ones
Allowlist ==
    { Strip(Split(settings.allowed_ips, ",")[i]) :
          i \in 1..Len(Split(settings.allowed_ips, ",")) } \ { << >> }

\* C9: when the allowlist is not empty, a request whose origin address is not
\* in it never reaches the workflow and no external command is run for it;
\* with a valid secret header it is rejected by verify_ip_address with status
\* 403 (without one, verify_api_key has rejected it before).  When the
\* allowlist is empty, no request is rejected with status 403 and every
\* request with a valid secret gets past verify_ip_address.
C9_AllowlistGate ==
    \A r \in Reqs :
        req[r].via = "http" =>
            /\ (Allowlist # {} /\ req[r].client_host \notin Allowlist) =>
                   /\ pc[r] \in {"verify_api_key", "verify_ip_address",
                                 "rejected"}
                   /\ calls[r] = << >>
                   /\ (pc[r] = "rejected" /\ ValidSecret(r)) =>
                          response[r].status_code = 403
            /\ Allowlist = {} =>
                   /\ response[r].status_code # 403
                   /\ (pc[r] = "rejected") => ~ValidSecret(r)

\* a request with the valid secret was rejected for its origin under a
\* non-empty allowlist
C9_Witness ==
    /\ Allowlist # {}
    /\ ValidSecret("r1")
    /\ req["r1"].client_host \notin Allowlist
    /\ pc["r1"] = "rejected"
    /\ response["r1"].status_code = 403

\* the text t contains the non-empty text u
Contains(t, u) == \E i \in 1..Len(t) : MatchesAt(t, i, u)

\* C10: when provision_user returned None to the endpoint, the response has
\* status 500 and its body is a detail message only: no username, password,
\* token_url or ovpn_file_base64 entry, and the detail contains neither the
\* account's password nor a URL.
C10_FailureCarriesNoData ==
    \A r \in Reqs :
        (req[r].via = "http" /\ pc[r] = "responded" /\ result[r] = NoResult) =>
            /\ response[r].status_code = 500
            /\ DOMAIN response[r].body = {"detail"}
            /\ ~Contains(response[r].body.detail, password[r])
            /\ ~Contains(response[r].body.detail, HttpsPrefix)
            /\ ~Contains(response[r].body.detail, settings.admin_ui_url)

\* the endpoint answered a workflow whose set-password step failed
C10_Witness ==
    /\ pc["r1"] = "responded"
    /\ result["r1"] = NoResult
    /\ Failed("r1", "SetLocalPassword")
    /\ Len(password["r1"]) = 16
    /\ response["r1"].status_code = 500

\* the outcome of the request's AddProfileToken command
TokenProc(r) ==
    calls[r][CHOOSE i \in 1..Len(calls[r]) :
                 IsCall(r, i, "AddProfileToken")].proc

\* t[i..] is openvpn://import-profile/ followed by a text that starts with
\* https://, has more characters, none of them whitespace, and ends at
\* position j, where the text ends or whitespace follows
ImportUrlAt(t, i, j) ==
    /\ MatchesAt(t, i, ImportProfilePrefix \o HttpsPrefix)
    /\ j >= i + Len(ImportProfilePrefix \o HttpsPrefix)
    /\ j <= Len(t)
    /\ \A k \in i..j : ~IsSpace(t[k])
    /\ j = Len(t) \/ IsSpace(t[j + 1])

\* u is the URL embedded in the first import-profile link of t
IsEmbeddedUrl(t, u) ==
    \E i \in 1..Len(t) : \E j \in i..Len(t) :
        /\ ImportUrlAt(t, i, j)
        /\ \A i2 \in 1..(i - 1) : \A j2 \in i2..Len(t) : ~ImportUrlAt(t, i2, j2)
        /\ u = SubSeq(t, i + Len(ImportProfilePrefix), j)

\* t[i..] is Token: followed by whitespace up to a and then by the
\* whitespace-delimited run t[a..b]
TokenAt(t, i, a, b) ==
    /\ MatchesAt(t, i, TokenKeyword)
    /\ a >= i + Len(TokenKeyword)
    /\ \A k \in (i + Len(TokenKeyword))..(a - 1) : IsSpace(t[k])
    /\ a <= b /\ b <= Len(t)
    /\ \A k \in a..b : ~IsSpace(t[k])
    /\ b = Len(t) \/ IsSpace(t[b + 1])

\* tok is the token that follows the first Token: of t that has one
IsFirstToken(t, tok) ==
    \E i \in 1..Len(t) : \E a \in i..Len(t) : \E b \in a..Len(t) :
        /\ TokenAt(t, i, a, b)
        /\ \A i2 \in 1..(i - 1) : \A a2 \in i2..Len(t) : \A b2 \in a2..Len(t) :
               ~TokenAt(t, i2, a2, b2)
        /\ tok = SubSeq(t, a, b)

\* <adminUrl>/?src=connect&username=<accountName>&token=<token>
SynthesizedUrl(username, tok) ==
    settings.admin_ui_url
        \o <<"/","?","s","r","c","=","c","o","n","n","e","c","t">>
        \o <<"&","u","s","e","r","n","a","m","e","=">> \o username
        \o <<"&","t","o","k","e","n","=">> \o tok

FirstOccurrence(t, lit) ==
    IF \E i \in 1..Len(t) : MatchesAt(t, i, lit)
    THEN CHOOSE i \in 1..Len(t) :
             MatchesAt(t, i, lit) /\ \A k \in 1..(i - 1) : ~MatchesAt(t, k, lit)
    ELSE 0

\* the AddProfileToken command of the request succeeded and its output has
\* both shapes
BothShapes(r) ==
    /\ RanOk(r, "AddProfileToken")
    /\ HasImportProfileShape(TokenProc(r).stdout)
    /\ HasTokenShape(TokenProc(r).stdout)

C12_GeneratedLengthAndAlphabet ==
    /\ Cardinality(PasswordCharacters) = 70
    /\ \A r \in Reqs : \A i \in 1..Len(generated[r]) :
           LET g == generated[r][i]
           IN  /\ Len(g.value) = (IF g.args = << >> THEN 16 ELSE g.args[1])
               /\ \A k \in 1..Len(g.value) : g.value[k] \in PasswordCharacters
               /\ \A c \in PasswordCharacters :
                      \E k \in 1..Len(alphabet) : alphabet[k] = c

\* generate_password was called without a length and with the length 0
C12_Witness ==
    /\ Len(generated["r1"]) = 2
    /\ generated["r1"][1].args = << >>
    /\ Len(generated["r1"][1].value) = 16
    /\ generated["r1"][2].args = <<0>>
    /\ generated["r1"][2].value = << >>

\* the four commands in the order of the workflow
CommandOrder ==
    <<"UserPropPut", "SetLocalPassword", "AddProfileToken", "GetUserlogin">>

\* the positions of the request's commands in the order of all commands
LogPositions(r) == { k \in 1..Len(log) : log[k][1] = r }

\* C13: within one provision call each of the four commands is run at most
\* once and only in the order UserPropPut, SetLocalPassword, AddProfileToken,
\* GetUserlogin; SetLocalPassword is run only after UserPropPut succeeded,
\* AddProfileToken only after SetLocalPassword succeeded, GetUserlogin only
\* after AddProfileToken ended; every command had ended when the next one of
\* the same call was run.
C13_CommandsOnceInOrder ==
    \A r \in Reqs :
        /\ Len(calls[r]) <= Len(CommandOrder)
        /\ \A i \in 1..Len(calls[r]) : calls[r][i].command.sub = CommandOrder[i]
        /\ \A sub \in { CommandOrder[i] : i \in 1..Len(CommandOrder) } :
               Cardinality({ i \in 1..Len(calls[r]) : IsCall(r, i, sub) }) <= 1
        /\ Ran(r, "SetLocalPassword") => RanOk(r, "UserPropPut")
        /\ Ran(r, "AddProfileToken") => RanOk(r, "SetLocalPassword")
        /\ Ran(r, "GetUserlogin") => Ran(r, "AddProfileToken")
        /\ Cardinality(LogPositions(r)) = Len(calls[r])
        /\ \A k, l \in LogPositions(r) : k < l => log[k][2] < log[l][2]
        /\ \A i \in 1..Len(calls[r]) :
               calls[r][i].proc \in
                   StepOutcomes \cup TokenOutcomes \cup ProfileOutcomes
        /\ pc[r] \in { "idle", "verify_api_key", "verify_ip_address",
                       "rejected", "endpoint", "provision_user",
                       "ensure_user_exists" } => calls[r] = << >>

\* a provision call ran all four commands, the third of which failed
C13_Witness ==
    /\ Returned("r2")
    /\ Len(calls["r2"]) = 4
    /\ Failed("r2", "AddProfileToken")
    /\ RanOk("r2", "GetUserlogin")

\* o is the text t without the whitespace at its two ends
IsTrimOf(o, t) ==
    \E i \in 1..(Len(t) + 1) : \E j \in 0..Len(t) :
        /\ o = SubSeq(t, i, j)
        /\ \A k \in 1..(i - 1) : IsSpace(t[k])
        /\ \A k \in (j + 1)..Len(t) : IsSpace(t[k])
        /\ o # << >> => ~IsSpace(o[1]) /\ ~IsSpace(o[Len(o)])

CommandTimedOut ==
    <<"C","o","m","m","a","n","d"," ","t","i","m","e","d"," ","o","u","t">>

\* C14: run_sacli hands every outcome of a command to the workflow as a pair
\* (success, output): success is true exactly when the process ended with
\* exit status 0, and the output is then the trimmed stdout; after a non-zero
\* exit the output is the trimmed stderr; after a timeout it is "Command timed
\* out"; after any other failure of the execution it is the text of the error.
C14_OutcomeIsAValue ==
    \A r \in Reqs : \A i \in 1..Len(calls[r]) :
        LET proc == calls[r][i].proc
            out  == calls[r][i].outcome
        IN  /\ out.success \in BOOLEAN
            /\ out.success <=> (proc.kind = "completed" /\ proc.returncode = 0)
            /\ out.success => IsTrimOf(out.output, proc.stdout)
            /\ (proc.kind = "completed" /\ proc.returncode # 0) =>
                   IsTrimOf(out.output, proc.stderr)
            /\ proc.kind = "timeout" => out.output = CommandTimedOut
            /\ proc.kind = "exception" => out.output = proc.error

\* a command wrote "  ok \n" and exited with status 0, and another one of the
\* same call timed out: both outcomes were handed on and the call went on
C14_Witness ==
    /\ Len(calls["r1"]) >= 2
    /\ calls["r1"][1].proc.stdout = <<" "," ","o","k"," ","\n">>
    /\ calls["r1"][1].outcome = [success |-> TRUE, output |-> <<"o","k">>]
    /\ calls["r1"][2].proc.kind = "timeout"
    /\ calls["r1"][2].outcome.output = CommandTimedOut
    /\ Returned("r1")

\* provision_user of the request is past its lines 160-162
PastPasswordChoice(r) ==
    pc[r] \in { "ensure_user_exists", "set_password", "generate_profile_token",
                "get_user_profile", "returned", "responded" }

\* the password carried by the request's successful SetLocalPassword command
CarriedPassword(r) ==
    calls[r][CHOOSE i \in 1..Len(calls[r]) :
                 /\ IsCall(r, i, "SetLocalPassword")
                 /\ Succeeded(calls[r][i].proc)].command.new_pass

\* C17: the password of every non-absent result is the one the workflow's
\* successful SetLocalPassword command carried.  A non-empty password given to
\* provision_user is that password and generate_password is not called; when
\* none (None or the empty text) was given, generate_password is called once,
\* before the UserPropPut command, and its value is that password; no later
\* step changes it.
C17_PasswordIsTheOneSet ==
    \A r \in Reqs :
        /\ result[r] # NoResult =>
               /\ RanOk(r, "SetLocalPassword")
               /\ result[r].password = CarriedPassword(r)
        /\ Truthy(req[r].password) =>
               /\ generated[r] = << >>
               /\ PastPasswordChoice(r) => password[r] = req[r].password
        /\ ~Truthy(req[r].password) =>
               /\ Len(generated[r]) = (IF PastPasswordChoice(r) THEN 1 ELSE 0)
               /\ PastPasswordChoice(r) => password[r] = generated[r][1].value
        /\ ~PastPasswordChoice(r) => calls[r] = << >>
        /\ \A i \in 1..Len(calls[r]) :
               /\ IsCall(r, i, "SetLocalPassword") =>
                      calls[r][i].command.new_pass = password[r]
               /\ ~IsCall(r, i, "SetLocalPassword") =>
                      calls[r][i].command.new_pass = None

\* a call with the password "Pw#1" returned it without a call of
\* generate_password
C17_Witness ==
    /\ Returned("r1") /\ result["r1"] # NoResult
    /\ req["r1"].password = <<"P","w","#","1">>
    /\ generated["r1"] = << >>
    /\ result["r1"].password = <<"P","w","#","1">>
    /\ CarriedPassword("r1") = <<"P","w","#","1">>

\* the k-th command of all that were run
LogEntry(k) == calls[log[k][1]][log[k][2]]

\* the k-th command of all set the password of the account u
SetsPasswordOf(k, u) ==
    /\ LogEntry(k).command.sub = "SetLocalPassword"
    /\ LogEntry(k).command.user = u
    /\ Succeeded(LogEntry(k).proc)

\* the password of the account u on the Access Server: the one carried by the
\* last SetLocalPassword command for u that succeeded, None before the first
AccountPassword(u) ==
    IF \E k \in 1..Len(log) : SetsPasswordOf(k, u)
    THEN LogEntry(CHOOSE k \in 1..Len(log) :
                      /\ SetsPasswordOf(k, u)
                      /\ \A l \in (k + 1)..Len(log) : ~SetsPasswordOf(l, u)
                 ).command.new_pass
    ELSE None

\* a command of one request was run between two commands of another
Interleaved ==
    \E k, l, m \in 1..Len(log) :
        /\ k < l /\ l < m
        /\ log[k][1] = log[m][1]
        /\ log[l][1] # log[k][1]

\* the request is inside provision_user
InWorkflow(r) == pc[r] \in EndpointBody \ {"returned"}

====
